---- MODULE Spec2Model ----
(***************************************************************************)
(* Address lifecycle of baker-street-integrations: the IPAM service         *)
(* (baker_street_ipam_service.py) that hands out addresses of a subnet and  *)
(* the route-injection service (enhanced_route_injection_service.py, or     *)
(* the older route_injection_service.py deployed on the same port) that     *)
(* publishes a DNS record, stages a static route on the master router,      *)
(* commits it and remembers the route in a Redis cache.                     *)
(*                                                                         *)
(* Addresses are IPv4 addresses scaled down to small integers; an IPv4      *)
(* address has exactly one spelling that ipaddress.ip_address() accepts, so *)
(* a parsable text is identified with the address it spells.                *)
(***************************************************************************)
EXTENDS Integers, Sequences, FiniteSets, TLC

(***************************************************************************)
(* Bounds of the model.                                                     *)
(***************************************************************************)
\* rows the ip_addresses table may hold (started calls are counted in)
MaxRows == 2

\* commit jobs the router holds at a time
MaxJobs == 1

\* seconds the wall clock may advance while the route service runs
MaxClock == 1

\* firewalls the configuration of panos-pki-manager lists
MaxFirewalls == 2

\* characters of the longest host name a DNS record carries
MaxLen == 3

\* request handlers of the IPAM service that may run at the same time
Procs == {1, 2}

(***************************************************************************)
(* Tables the services read but never write: subnets, devices.              *)
(***************************************************************************)
\* Subnet rows. Subnet 1 is the test pool 10.100.1.0/24 with gateway
\* 10.100.1.1 (scaled to a /30: network 0, hosts 1 and 2, broadcast 3);
\* subnet 2 is a pool outside the cyber-range networks, 172.16.0.0/24 scaled
\* to a /30, without a gateway.
Subnets ==
    { [id |-> 1, base |-> 0, size |-> 4, gateway |-> 1, zone |-> "test"],
      [id |-> 2, base |-> 4, size |-> 4, gateway |-> 0 - 1, zone |-> "lab"] }

SubnetIds == {s.id : s \in Subnets}

\* subnet_id values a request may carry: the existing ones and an unknown one
RequestSubnetIds == SubnetIds \cup {9}

\* session.query(Subnet).filter(Subnet.id == subnet_id).first()
SubnetById(sid) == CHOOSE s \in Subnets : s.id = sid

\* Device rows: device 1 exists; 0 stands for device_id = None
DeviceIds == {1}
NoDevice == 0

\* every address some subnet contains, and one address outside all of them
Addr == 0 .. 8
NoIp == 0 - 1

\* a text that spells no address although it begins like one: "10.0.0.256"
BadIp == 0 - 2

(***************************************************************************)
(* ipaddress: networks, hosts(), parsing.                                   *)
(***************************************************************************)
\* ip in network
InNetwork(ip, net) == net.base <= ip /\ ip <= net.base + net.size - 1

\* network.hosts(): all addresses but the network and the broadcast address
\* (a /31 yields both addresses, a /32 its single address)
Hosts(net) ==
    IF net.size >= 4 THEN (net.base + 1) .. (net.base + net.size - 2)
    ELSE net.base .. (net.base + net.size - 1)

\* preferred_ip as the request carries it: None, an unparsable text, or the
\* spelling of an address
NoPreference == [kind |-> "none", a |-> 0]
BadText == [kind |-> "bad", a |-> 0]
TextOf(a) == [kind |-> "addr", a |-> a]
PreferredTexts == {NoPreference, BadText} \cup {TextOf(a) : a \in {0, 1, 3, 5, 8}}

\* `if preferred_ip:`
HasPreference(t) == t.kind # "none"
\* ipaddress.ip_address(preferred_ip) raises ValueError
ParseFails(t) == t.kind = "bad"
\* the address ipaddress.ip_address(preferred_ip) returns
ParseIp(t) == t.a

\* IPAMService._is_cyber_range_ip: the hard-coded networks 10.0.0.0/8, ...
\* contain the test pool (subnet 1) and not subnet 2
IpamCyberRangeNetworks == { [base |-> 0, size |-> 4] }
ipam_is_cyber_range_ip(ip) == \E n \in IpamCyberRangeNetworks : InNetwork(ip, n)

(***************************************************************************)
(* State.                                                                   *)
(***************************************************************************)
VARIABLES
    table,        \* ip_addresses rows in insertion order (id = position)
    pc,           \* per request handler: where it stands
    req,          \* per request handler: the request it serves
    ip_to_allocate, \* per handler: the address the scan chose
    result,       \* per handler: what the call returned or raised
    ipamCache,    \* Redis ipam:ip:<address>: the cached status
    dnsRecords,   \* records the DNS API holds
    candidate,    \* static routes of the router's candidate configuration
    running,      \* static routes of the router's running configuration
    everCommitted,\* routes created and then part of a commit the router accepted
    commitQueue,  \* the router's commit jobs not yet finished, oldest first
    cache,        \* Redis route:<name> entries of the route service
    deployment,   \* which route service listens on port 5001
    auto_commit,  \* route_injection.auto_commit
    include_timestamp, \* route_injection.route_naming.include_timestamp
    clock,        \* int(time.time()): the second the wall clock shows
    commit,       \* per script: where its commit_config stands, what it returned
    jobs,         \* per script: the device's commit job for it
    submitted,    \* per script: commit requests its commit_config has sent
    polled,       \* per script: what its last poll of the job brought back
    lastRoute,    \* what the last route-service request did and returned
    naming,       \* the DNS records a route name was generated for, each with its name
    threads,      \* per worker thread of the route service: its request, where it stands
    pki,          \* the run of panos-pki-manager: settings, position, changes made
    nat,          \* the run of create-winrm-nat-rules: arguments, position, counts
    calls         \* per handler: the downstream calls made for its request

ipamVars == <<table, pc, req, ip_to_allocate, result, ipamCache, calls>>
routeVars ==
    <<dnsRecords, candidate, running, everCommitted, commitQueue, cache, lastRoute>>
configVars == <<deployment, auto_commit, include_timestamp>>
commitVars == <<commit, jobs, submitted, polled>>
toolVars == <<naming, threads, pki, nat>>
vars == <<table, pc, req, ip_to_allocate, result, ipamCache, dnsRecords,
          candidate, running, everCommitted, commitQueue, cache, deployment,
          auto_commit,
          include_timestamp, clock, commit, jobs, submitted, polled,
          lastRoute, calls, naming, threads, pki, nat>>

(***************************************************************************)
(* The ip_addresses table.                                                  *)
(***************************************************************************)
ActiveStatuses == {"allocated", "reserved"}

Rows(tbl) == {tbl[i] : i \in 1 .. Len(tbl)}

\* IPAddress.status.in_(['allocated', 'reserved'])
IsActive(row) == row.status \in ActiveStatuses

\* the query of the preferred branch: any subnet, status allocated/reserved
ExistingAllocatedOnly(tbl, ip) ==
    \E r \in Rows(tbl) : r.ip_address = ip /\ r.status = "allocated"
ExistingActive(tbl, ip) == \E r \in Rows(tbl) : r.ip_address = ip /\ IsActive(r)

\* allocated_set of the scan: rows of this subnet, status allocated/reserved
AllocatedSet(tbl, sid) ==
    {r.ip_address : r \in {x \in Rows(tbl) : x.subnet_id = sid /\ IsActive(x)}}

\* the hosts of the subnet the scan finds free
FreeHosts(tbl, sid) == Hosts(SubnetById(sid)) \ AllocatedSet(tbl, sid)

\* for ip in network.hosts(): if str(ip) not in allocated_set: ... break
FirstFree(tbl, sid) ==
    CHOOSE h \in FreeHosts(tbl, sid) : \A k \in FreeHosts(tbl, sid) : h <= k

\* Column(String(50), nullable=False, unique=True): the insert is refused
\* when any row, whatever its status, already holds the address
UniqueNone(tbl, ip) == FALSE
UniqueViolation(tbl, ip) == \E r \in Rows(tbl) : r.ip_address = ip

\* IPAddress(ip_address=..., status='allocated', allocated_at=utcnow(), ...)
NewRow(ip, r) ==
    [ip_address |-> ip, subnet_id |-> r.subnet_id, device_id |-> r.device_id,
     status |-> "allocated", allocated_at |-> TRUE, expires_at |-> r.expires_at,
     notes |-> r.notes]

\* release_ip's query: ip_address == ..., status == 'allocated', .first()
AnyActiveIndex(tbl, ip) ==
    {i \in 1 .. Len(tbl) : tbl[i].ip_address = ip /\ IsActive(tbl[i])}
AllocatedIndex(tbl, ip) ==
    {i \in 1 .. Len(tbl) : tbl[i].ip_address = ip /\ tbl[i].status = "allocated"}

\* status = 'available'; allocated_at, expires_at, device_id = None
Released(row) ==
    [row EXCEPT !.status = "available", !.allocated_at = FALSE,
                !.expires_at = FALSE, !.device_id = NoDevice]

(***************************************************************************)
(* What a call hands to its caller.                                         *)
(***************************************************************************)
\* the status code of the HTTPException raised inside the try block
RaisedStatus(cause) ==
    CASE cause = "subnet_not_found" -> 404
      [] cause = "invalid_format" -> 400
      [] cause = "not_in_subnet" -> 400
      [] cause = "already_allocated" -> 409
      [] cause = "no_available" -> 507
      [] cause = "not_allocated" -> 404
      [] OTHER -> 500

\* except Exception as e: session.rollback();
\*     raise HTTPException(status_code=500, detail=str(e))
Failure(cause) ==
    [ok |-> FALSE, status_code |-> 500, cause |-> cause, ip |-> NoIp]

Success(ip) == [ok |-> TRUE, status_code |-> 200, cause |-> "none", ip |-> ip]

NoResult == [ok |-> FALSE, status_code |-> 0, cause |-> "pending", ip |-> NoIp]

NoRequest ==
    [op |-> "none", subnet_id |-> 0, device_id |-> NoDevice,
     preferred_ip |-> NoPreference, notes |-> FALSE, expires_at |-> FALSE,
     ip_address |-> NoIp]

\* the allocation requests a client may send
Shapes == {<<NoDevice, FALSE>>, <<1, TRUE>>}
AllocationRequests ==
    { [op |-> "allocate", subnet_id |-> sid, device_id |-> shape[1],
       preferred_ip |-> t, notes |-> shape[2], expires_at |-> shape[2],
       ip_address |-> NoIp] :
      sid \in RequestSubnetIds, t \in PreferredTexts,
      shape \in Shapes }

\* the requests of the clients that run concurrently: one pool, with and
\* without a preferred address
ConcurrentRequests ==
    { r \in AllocationRequests :
        /\ r.subnet_id = 1
        /\ r.preferred_ip \in {NoPreference, BadText, TextOf(1), TextOf(5)}
        /\ r.device_id = NoDevice }
ConcurrentReleases == {1, 2}

\* the requests served while the services behind the IPAM service may fail:
\* the test pool, with and without a device
FaultRequests ==
    { r \in AllocationRequests :
        /\ r.subnet_id = 1
        /\ r.preferred_ip \in {NoPreference, TextOf(1)} }
FaultReleases == {1, 2}

ReleaseRequest(ip) ==
    [NoRequest EXCEPT !.op = "release", !.ip_address = ip]

\* lines 305-347 of allocate_ip: the subnet lookup, the checks of
\* preferred_ip and the search for a free address. cause is "none" when an
\* address was chosen, else the error raised.
Chosen(ip) == [cause |-> "none", ip |-> ip]
Raised(cause) == [cause |-> cause, ip |-> NoIp]
Scan(tbl, r) ==
    IF r.subnet_id \notin SubnetIds THEN Raised("subnet_not_found")
    ELSE IF HasPreference(r.preferred_ip) THEN
        IF ParseFails(r.preferred_ip) THEN Raised("invalid_format")
        ELSE IF ~InNetwork(ParseIp(r.preferred_ip), SubnetById(r.subnet_id))
            THEN Raised("not_in_subnet")
        ELSE IF ExistingActive(tbl, ParseIp(r.preferred_ip))
            THEN Raised("already_allocated")
        ELSE Chosen(ParseIp(r.preferred_ip))
    ELSE IF FreeHosts(tbl, r.subnet_id) = {} THEN Raised("no_available")
    ELSE Chosen(FirstFree(tbl, r.subnet_id))

(***************************************************************************)
(* The route-injection service.                                             *)
(***************************************************************************)
Zone == "bakerstreetlabs.local"

\* fully-qualified names: <hostname>.<zone> of a device, device-<id>.<zone>,
\* ip-<a-b-c-d>.<zone>
HostFqdn(d) == [kind |-> "host", n |-> d]
DeviceFqdn(d) == [kind |-> "device", n |-> d]
IpFqdn(ip) == [kind |-> "ip", n |-> ip]

\* RouteInjectionClient.inject_route: device-<id> if device_id else ip-<address>
InjectFqdn(ip, device_id) ==
    IF device_id # NoDevice THEN DeviceFqdn(device_id) ELSE IpFqdn(ip)

\* RouteInjectionClient.remove_route: always ip-<address>
RemoveFqdn(ip) == IpFqdn(ip)

DnsRecord(zone, fqdn, ip) == [zone |-> zone, fqdn |-> fqdn, ip |-> ip]

\* no timestamp is part of the name
NoStamp == 0 - 1

\* RouteInjectionService.generate_route_name: prefix, zone, fqdn and address
\* (default prefix, include_zone and separator), then int(time.time()) when
\* route_naming.include_timestamp is set:
\* dns_<zone>_<fqdn>_<address>
generate_route_name(fqdn, ip, zone) ==
    [zone |-> zone, fqdn |-> fqdn, ip |-> ip,
     stamp |-> IF include_timestamp THEN clock ELSE NoStamp]

\* DNSWebhookHandler: f"dns_{fqdn...}_{ip_address...}", the zone is left out
legacy_route_name(fqdn, ip) ==
    [zone |-> "", fqdn |-> fqdn, ip |-> ip, stamp |-> NoStamp]

NoName ==
    [zone |-> "", fqdn |-> [kind |-> "none", n |-> 0], ip |-> NoIp,
     stamp |-> NoStamp]

\* ipaddress.ip_address(ip_address) returns an address
Parses(ip) == ip # BadIp

\* how the text of an address begins: the pool of subnet 1 is spelled
\* 10.100.1.x, the pool of subnet 2 172.16.0.x, address 8 is 8.8.8.8
Prefix(ip) ==
    CASE ip = BadIp -> "10."
      [] ip \in 0 .. 3 -> "10."
      [] ip \in 4 .. 7 -> "172."
      [] OTHER -> "8."

\* route_injection.cyber_range_networks: 10.0.0.0/8, 172.20.0.0/16,
\* 192.168.0.0/16
RouteCyberRangeNetworks == { [base |-> 0, size |-> 4] }

\* RouteInjectionService.is_cyber_range_ip: membership in a listed network,
\* False when the text does not parse
is_cyber_range_ip(ip) ==
    Parses(ip) /\ \E n \in RouteCyberRangeNetworks : InNetwork(ip, n)

\* DNSWebhookHandler.cyber_range_networks: the list __init__ sets
LegacyCyberRangeNetworks == { [base |-> 0, size |-> 4] }

\* DNSWebhookHandler._is_cyber_range_ip:
\* ip_address.startswith(("10.", "172.", "192.168.")); the list is not read
legacy_is_cyber_range_ip(ip) == Prefix(ip) \in {"10.", "172.", "192.168."}

\* the DNS API, the router and the Redis cache as a handler finds them
World ==
    [dnsRecords |-> dnsRecords, candidate |-> candidate, running |-> running,
     everCommitted |-> everCommitted, commitQueue |-> commitQueue,
     cache |-> cache]

Outcome(call, ok) == [call |-> call, ok |-> ok]

\* the JSON a handler returns: success, route_injected / route_removed
\* (flag), and the calls it made to the DNS API, the router and the cache
RouteResult(op, name, success, flag, hadEntry, made) ==
    [op |-> op, name |-> name, success |-> success, flag |-> flag,
     hadEntry |-> hadEntry, calls |-> made]

NoRoute == RouteResult("none", NoName, FALSE, FALSE, FALSE, <<>>)

Reply(w, response) == [world |-> w, response |-> response]

\* zero or one commit call
CommitCalls(submit, ok) == IF submit THEN <<Outcome("commit", ok)>> ELSE <<>>

\* DNSAPIManager.add_dns_record answered 200
Published(w, zone, fqdn, ip) ==
    [w EXCEPT !.dnsRecords = @ \cup {DnsRecord(zone, fqdn, ip)}]

\* commit_configuration returns True when the router answers the commit
\* request with status 'success': the commit job is enqueued, not finished.
\* The router refuses a commit while MaxJobs jobs are waiting.
Accepts(w, commitOk) == commitOk /\ Len(w.commitQueue) < MaxJobs

\* the router after a successful `action=set` / `action=delete` left the
\* candidate configuration cand, followed by a commit request when one was
\* submitted and accepted: the job will make that candidate configuration run
Staged(w, cand, accepted) ==
    [w EXCEPT !.candidate = cand,
              !.everCommitted = IF accepted THEN @ \cup cand ELSE @,
              !.commitQueue = IF accepted THEN Append(@, cand) ELSE @]

\* redis_client.setex(f"route:{route_name}", ...) / redis_client.delete(...)
CacheSet(w, route_name) == [w EXCEPT !.cache = @ \cup {route_name}]
CacheDelete(w, route_name) == [w EXCEPT !.cache = @ \ {route_name}]

\* RouteInjectionService.inject_route_for_dns_record
inject_route_for_dns_record(w, zone, fqdn, ip, dnsOk, routeOk, commitOk) ==
    LET route_name == generate_route_name(fqdn, ip, zone) IN
    IF ~is_cyber_range_ip(ip) THEN
        Reply(w, RouteResult("inject", route_name, TRUE, FALSE, FALSE, <<>>))
    ELSE IF ~dnsOk THEN
        Reply(w, RouteResult("inject", route_name, FALSE, FALSE, FALSE,
                             <<Outcome("dns_add", FALSE)>>))
    ELSE IF ~routeOk THEN
        Reply(Published(w, zone, fqdn, ip),
              RouteResult("inject", route_name, FALSE, FALSE, FALSE,
                  <<Outcome("dns_add", TRUE), Outcome("route_set", FALSE)>>))
    ELSE
        Reply(CacheSet(Staged(Published(w, zone, fqdn, ip),
                              w.candidate \cup {route_name},
                              auto_commit /\ Accepts(w, commitOk)),
                       route_name),
              RouteResult("inject", route_name, TRUE, TRUE, FALSE,
                  <<Outcome("dns_add", TRUE), Outcome("route_set", TRUE)>>
                  \o CommitCalls(auto_commit, Accepts(w, commitOk))
                  \o <<Outcome("cache_set", TRUE)>>))

\* `if not route_info:` of remove_route_for_dns_record: the route is not in
\* the cache, nothing is undone and the request succeeds
NotInCacheIsError(w, route_name) ==
    Reply(w, RouteResult("remove", route_name, FALSE, FALSE, FALSE, <<>>))
NotInCache(w, route_name) ==
    Reply(w, RouteResult("remove", route_name, TRUE, FALSE, FALSE, <<>>))

\* RouteInjectionService.remove_route_for_dns_record
remove_route_for_dns_record(w, zone, fqdn, ip, deleteOk, commitOk) ==
    LET route_name == generate_route_name(fqdn, ip, zone) IN
    IF route_name \notin w.cache THEN NotInCache(w, route_name)
    ELSE IF ~deleteOk THEN
        Reply(w, RouteResult("remove", route_name, FALSE, FALSE, TRUE,
                             <<Outcome("route_delete", FALSE)>>))
    ELSE
        Reply(CacheDelete(Staged(w, w.candidate \ {route_name},
                                 auto_commit /\ Accepts(w, commitOk)),
                          route_name),
              RouteResult("remove", route_name, TRUE, TRUE, TRUE,
                  <<Outcome("route_delete", TRUE)>>
                  \o CommitCalls(auto_commit, Accepts(w, commitOk))
                  \o <<Outcome("cache_delete", TRUE)>>))

\* DNSWebhookHandler.handle_dns_record_created
handle_dns_record_created(w, zone, fqdn, ip, routeOk, commitOk) ==
    LET route_name == legacy_route_name(fqdn, ip) IN
    IF ~legacy_is_cyber_range_ip(ip) THEN
        Reply(w, RouteResult("inject", route_name, TRUE, FALSE, FALSE, <<>>))
    ELSE IF ~routeOk THEN
        Reply(w, RouteResult("inject", route_name, FALSE, FALSE, FALSE,
                             <<Outcome("route_set", FALSE)>>))
    ELSE IF ~Accepts(w, commitOk) THEN
        Reply(Staged(w, w.candidate \cup {route_name}, FALSE),
              RouteResult("inject", route_name, FALSE, FALSE, FALSE,
                  <<Outcome("route_set", TRUE), Outcome("commit", FALSE)>>))
    ELSE
        Reply(CacheSet(Staged(w, w.candidate \cup {route_name}, TRUE), route_name),
              RouteResult("inject", route_name, TRUE, TRUE, FALSE,
                  <<Outcome("route_set", TRUE), Outcome("commit", TRUE),
                    Outcome("cache_set", TRUE)>>))

\* DNSWebhookHandler.handle_dns_record_deleted
handle_dns_record_deleted(w, zone, fqdn, ip, deleteOk, commitOk) ==
    LET route_name == legacy_route_name(fqdn, ip) IN
    IF route_name \notin w.cache THEN
        Reply(w, RouteResult("remove", route_name, TRUE, FALSE, FALSE, <<>>))
    ELSE IF ~deleteOk THEN
        Reply(w, RouteResult("remove", route_name, FALSE, FALSE, TRUE,
                             <<Outcome("route_delete", FALSE)>>))
    ELSE IF ~Accepts(w, commitOk) THEN
        Reply(Staged(w, w.candidate \ {route_name}, FALSE),
              RouteResult("remove", route_name, FALSE, FALSE, TRUE,
                  <<Outcome("route_delete", TRUE), Outcome("commit", FALSE)>>))
    ELSE
        Reply(CacheDelete(Staged(w, w.candidate \ {route_name}, TRUE), route_name),
              RouteResult("remove", route_name, TRUE, TRUE, TRUE,
                  <<Outcome("route_delete", TRUE), Outcome("commit", TRUE),
                    Outcome("cache_delete", TRUE)>>))

\* the DNS API, the router and the cache become what the handler left
Becomes(w) ==
    /\ dnsRecords' = w.dnsRecords
    /\ candidate' = w.candidate
    /\ running' = w.running
    /\ everCommitted' = w.everCommitted
    /\ commitQueue' = w.commitQueue
    /\ cache' = w.cache

\* the handler's reply goes to the client of the route service
Answer(reply) ==
    /\ Becomes(reply.world)
    /\ lastRoute' = reply.response

\* what the clients of the route service send
ApiFqdns == {DeviceFqdn(1), IpFqdn(1)}
ApiIps == {1, 5}

\* ip_address values the DNS server's webhooks carry
WebhookIps == {1}

\* the one record whose route is created and removed while time passes
NamingFqdns == {IpFqdn(1)}
NamingIps == {1}

\* ip_address texts a client may send: inside the listed networks, outside
\* them, and one that does not parse
ManagedFqdns == {IpFqdn(1)}
ManagedIps == {1, 5, 8, BadIp}

\* POST /api/v1/dns-record of the enhanced service
add_dns_record_with_route(fqdns, ips) ==
    /\ deployment = "enhanced"
    /\ \E fqdn \in fqdns, ip \in ips, dnsOk, routeOk, commitOk \in BOOLEAN :
           Answer(inject_route_for_dns_record(World, Zone, fqdn, ip,
                                              dnsOk, routeOk, commitOk))
    /\ UNCHANGED <<ipamVars, configVars, clock, commitVars, toolVars>>

\* DELETE /api/v1/dns-record of the enhanced service
remove_dns_record_with_route(fqdns, ips) ==
    /\ deployment = "enhanced"
    /\ \E fqdn \in fqdns, ip \in ips, deleteOk, commitOk \in BOOLEAN :
           Answer(remove_route_for_dns_record(World, Zone, fqdn, ip,
                                              deleteOk, commitOk))
    /\ UNCHANGED <<ipamVars, configVars, clock, commitVars, toolVars>>

\* POST /api/v1/webhook/dns-record-created of the older service
dns_record_created(fqdns, ips) ==
    /\ deployment = "legacy"
    /\ \E fqdn \in fqdns, ip \in ips, routeOk, commitOk \in BOOLEAN :
           Answer(handle_dns_record_created(World, Zone, fqdn, ip, routeOk, commitOk))
    /\ UNCHANGED <<ipamVars, configVars, clock, commitVars, toolVars>>

\* POST /api/v1/webhook/dns-record-deleted of the older service
dns_record_deleted ==
    /\ deployment = "legacy"
    /\ \E fqdn \in ApiFqdns, ip \in WebhookIps, deleteOk, commitOk \in BOOLEAN :
           Answer(handle_dns_record_deleted(World, Zone, fqdn, ip, deleteOk, commitOk))
    /\ UNCHANGED <<ipamVars, configVars, clock, commitVars, toolVars>>

(***************************************************************************)
(* The IPAM service: allocate_ip and release_ip.                            *)
(***************************************************************************)
\* a handler ends: the result goes to the caller
Finish(p, res) ==
    /\ pc' = [pc EXCEPT ![p] = "done"]
    /\ result' = [result EXCEPT ![p] = res]

\* rows in the table plus the inserts the running calls may still make; a
\* call that chose an address is started only while this is below MaxRows
Started == Len(table) + Cardinality({q \in Procs : pc[q] = "scanned"})

\* allocate_ip up to the choice of ip_to_allocate (lines 303-347)
allocate_ip_scan(p, requests) ==
    /\ pc[p] = "idle"
    /\ \E r \in requests :
        /\ req' = [req EXCEPT ![p] = r]
        /\ IF Scan(table, r).cause = "none"
           THEN /\ Started < MaxRows
                /\ ip_to_allocate' = [ip_to_allocate EXCEPT ![p] = Scan(table, r).ip]
                /\ pc' = [pc EXCEPT ![p] = "scanned"]
                /\ UNCHANGED result
           ELSE /\ Finish(p, Failure(Scan(table, r).cause))
                /\ UNCHANGED ip_to_allocate
    /\ UNCHANGED <<table, ipamCache, calls, routeVars, configVars, clock, commitVars, toolVars>>

\* session.add(ip_record); session.commit() (lines 349-361)
allocate_ip_insert(p) ==
    /\ pc[p] = "scanned"
    /\ IF UniqueViolation(table, ip_to_allocate[p])
       THEN /\ Finish(p, Failure("integrity_error"))
            /\ UNCHANGED table
       ELSE /\ table' = Append(table, NewRow(ip_to_allocate[p], req[p]))
            /\ pc' = [pc EXCEPT ![p] = "inserted"]
            /\ UNCHANGED result
    /\ UNCHANGED <<req, ip_to_allocate, ipamCache, calls, routeVars, configVars, clock, commitVars, toolVars>>

\* `if device_id:` device = session.query(Device)...first() and
\* self._create_dns_record(...) (lines 363-367): a failure of the DNS API is
\* logged and swallowed, a failure of the query reaches `except Exception`,
\* whose session.rollback() comes after session.commit()
allocate_ip_dns(p, outcomes) ==
    /\ pc[p] = "inserted"
    /\ \E lookup \in outcomes :
        IF req[p].device_id # NoDevice /\ ~lookup
        THEN /\ Finish(p, Failure("database_error"))
             /\ UNCHANGED <<dnsRecords, calls>>
        ELSE /\ pc' = [pc EXCEPT ![p] = "published"]
             /\ UNCHANGED result
             /\ IF req[p].device_id # NoDevice /\ req[p].device_id \in DeviceIds
                THEN \E ok \in outcomes :
                     /\ dnsRecords' = IF ok
                            THEN dnsRecords \cup
                                 {DnsRecord(SubnetById(req[p].subnet_id).zone,
                                            HostFqdn(req[p].device_id), ip_to_allocate[p])}
                            ELSE dnsRecords
                     /\ calls' = [calls EXCEPT ![p] = Append(@, Outcome("create_record", ok))]
                ELSE UNCHANGED <<dnsRecords, calls>>
    /\ UNCHANGED <<table, req, ip_to_allocate, ipamCache, candidate,
                   running, everCommitted, commitQueue, cache, lastRoute,
                   configVars, clock, commitVars, toolVars>>

\* what RouteInjectionClient sees of its request to port 5001: the enhanced
\* service serves /api/v1/dns-record, the older one does not
Reaches(reach) == reach /\ deployment = "enhanced"

\* the client's call and, when it got through, the calls of the service
ClientCalls(call, reached, reply) ==
    IF reached THEN <<Outcome(call, reply.response.success)>> \o reply.response.calls
    ELSE <<Outcome(call, FALSE)>>

\* lines 369-385: route injection for a cyber-range address, the Redis
\* cache, the response; reading ip_record after the commit reloads the row,
\* and a failure of that reload reaches `except Exception`
allocate_ip_route(p, outcomes) ==
    /\ pc[p] = "published"
    /\ IF ipam_is_cyber_range_ip(ip_to_allocate[p])
       THEN \E reach, dnsOk, routeOk, commitOk \in outcomes :
            LET reply == inject_route_for_dns_record(World, Zone,
                             InjectFqdn(ip_to_allocate[p], req[p].device_id),
                             ip_to_allocate[p], dnsOk, routeOk, commitOk)
            IN /\ Becomes(IF Reaches(reach) THEN reply.world ELSE World)
               /\ calls' = [calls EXCEPT ![p] =
                      @ \o ClientCalls("inject_route", Reaches(reach), reply)]
       ELSE UNCHANGED <<dnsRecords, candidate, running, everCommitted,
                        commitQueue, cache, calls>>
    /\ ipamCache' = [ipamCache EXCEPT ![ip_to_allocate[p]] = "allocated"]
    /\ \E respond \in outcomes :
           Finish(p, IF respond THEN Success(ip_to_allocate[p])
                     ELSE Failure("database_error"))
    /\ UNCHANGED <<table, req, ip_to_allocate, lastRoute, configVars, clock, commitVars, toolVars>>

\* the row release_ip's query returns
FirstAllocated(tbl, ip) ==
    CHOOSE i \in AllocatedIndex(tbl, ip) : \A j \in AllocatedIndex(tbl, ip) : i <= j

\* DNSAPIClient.remove_record_by_ip only logs the request
RemoveRecordCalls == <<Outcome("remove_record_by_ip", TRUE)>>

\* IPAMService.release_ip
release_ip(p, ips, outcomes) ==
    /\ pc[p] = "idle"
    /\ \E ip \in ips :
        /\ req' = [req EXCEPT ![p] = ReleaseRequest(ip)]
        /\ IF AllocatedIndex(table, ip) = {}
           THEN /\ Finish(p, Failure("not_allocated"))
                /\ UNCHANGED <<table, ipamCache, calls, dnsRecords, candidate,
                               running, everCommitted, commitQueue, cache>>
           ELSE /\ table' = [table EXCEPT ![FirstAllocated(table, ip)] = Released(@)]
                /\ IF ipam_is_cyber_range_ip(ip)
                   THEN \E reach, deleteOk, commitOk \in outcomes :
                        LET reply == remove_route_for_dns_record(World, Zone,
                                         RemoveFqdn(ip), ip, deleteOk, commitOk)
                        IN /\ Becomes(IF Reaches(reach) THEN reply.world ELSE World)
                           /\ calls' = [calls EXCEPT ![p] = RemoveRecordCalls
                                  \o ClientCalls("remove_route", Reaches(reach), reply)]
                   ELSE /\ calls' = [calls EXCEPT ![p] = RemoveRecordCalls]
                        /\ UNCHANGED <<dnsRecords, candidate, running,
                                       everCommitted, commitQueue, cache>>
                /\ ipamCache' = [ipamCache EXCEPT ![ip] = "available"]
                /\ Finish(p, Success(ip))
    /\ UNCHANGED <<ip_to_allocate, lastRoute, configVars, clock, commitVars, toolVars>>

\* the caller has its response; the worker takes the next request
Return(p) ==
    /\ pc[p] = "done"
    /\ pc' = [pc EXCEPT ![p] = "idle"]
    /\ req' = [req EXCEPT ![p] = NoRequest]
    /\ result' = [result EXCEPT ![p] = NoResult]
    /\ ip_to_allocate' = [ip_to_allocate EXCEPT ![p] = NoIp]
    /\ calls' = [calls EXCEPT ![p] = <<>>]
    /\ UNCHANGED <<table, ipamCache, routeVars, configVars, clock, commitVars, toolVars>>

(***************************************************************************)
(* commit_config of the configuration scripts (upload_pan_os_config.py,     *)
(* import_mgmt_cert.py, generate_mgmt_cert.py): submit a commit, then poll  *)
(* the commit job every two seconds.                                        *)
(***************************************************************************)
Scripts == {"upload_pan_os_config", "import_mgmt_cert", "generate_mgmt_cert"}

\* import_mgmt_cert.py wraps the whole function in `except Exception`, the
\* other two catch requests.exceptions.RequestException only
CatchesAll(s) == s = "import_mgmt_cert"

NotCalled == [pc |-> "start", returned |-> "none"]
Polling == [pc |-> "polling", returned |-> "none"]
Sleeping == [pc |-> "sleeping", returned |-> "none"]
Returns(value) == [pc |-> "returned", returned |-> value]

\* job states the device reports: pending, active, finished with a result
JobStates == {"PEND", "ACT", "FIN_OK", "FIN_FAIL"}
Finished(job) == job \in {"FIN_OK", "FIN_FAIL"}

\* what a request to the device's API may bring back
SubmitAnswers == {"request_error", "status_error", "job", "no_job"}
PollAnswers == {"request_error", "malformed", "no_status", "status"}

\* `if job_status == 'FIN':` True when the result is OK, False for any other
\* result; otherwise on to time.sleep(2)
JobResultAnyFin(job) == IF Finished(job) THEN Returns("True") ELSE Sleeping
JobResult(job) ==
    IF job = "FIN_OK" THEN Returns("True")
    ELSE IF job = "FIN_FAIL" THEN Returns("False")
    ELSE Sleeping

\* commit_config up to the loop: the commit request and its answer
commit_config_submit(s) ==
    /\ commit[s].pc = "start"
    /\ \E answer \in SubmitAnswers :
        /\ commit' = [commit EXCEPT ![s] =
               CASE answer = "request_error" -> Returns("False")
                 [] answer = "status_error" -> Returns("False")
                 [] answer = "no_job" -> Returns("True")
                 [] OTHER -> Polling]
        /\ jobs' = [jobs EXCEPT ![s] = IF answer = "job" THEN "PEND" ELSE @]
    /\ submitted' = [submitted EXCEPT ![s] = @ + 1]
    /\ UNCHANGED <<polled, ipamVars, routeVars, configVars, clock, toolVars>>

\* one turn of `while True:`: show the job, return when it is FIN, else go
\* on to time.sleep(2)
commit_config_poll(s) ==
    /\ commit[s].pc = "polling"
    /\ \E answer \in PollAnswers :
        /\ commit' = [commit EXCEPT ![s] =
               CASE answer = "request_error" -> Returns("False")
                 [] answer = "malformed" ->
                       IF CatchesAll(s) THEN Returns("False") ELSE Returns("raised")
                 [] answer = "no_status" -> Returns("False")
                 [] OTHER -> JobResult(jobs[s])]
        /\ polled' = [polled EXCEPT ![s] = IF answer = "status" THEN jobs[s] ELSE answer]
    /\ UNCHANGED <<jobs, submitted, ipamVars, routeVars, configVars, clock, toolVars>>

\* time.sleep(2) is over: back to the head of the loop
commit_config_sleep(s) ==
    /\ commit[s].pc = "sleeping"
    /\ commit' = [commit EXCEPT ![s] = Polling]
    /\ UNCHANGED <<jobs, submitted, polled, ipamVars, routeVars, configVars, clock,
                   toolVars>>

\* the device works on the commit job, at its own pace
device_job_advances(s) ==
    /\ jobs[s] \in {"PEND", "ACT"}
    /\ \E next \in JobStates :
        /\ \/ jobs[s] = "PEND" /\ next = "ACT"
           \/ jobs[s] = "ACT" /\ Finished(next)
        /\ jobs' = [jobs EXCEPT ![s] = next]
    /\ UNCHANGED <<commit, submitted, polled, ipamVars, routeVars, configVars,
                   clock, toolVars>>

(***************************************************************************)
(* Route names as the text the router and Redis see. The handlers above     *)
(* carry a name as the parts it was generated from; this is the string.     *)
(***************************************************************************)
\* the texts of at most n characters over an alphabet
Texts(chars, n) == UNION { [1 .. k -> chars] : k \in 1 .. n }

\* str.replace(old, new) for single characters
Replace(text, old, new) ==
    [i \in 1 .. Len(text) |-> IF text[i] = old THEN new ELSE text[i]]

\* separator.join(parts)
RECURSIVE Join(_, _)
Join(parts, separator) ==
    IF parts = <<>> THEN <<>>
    ELSE IF Len(parts) = 1 THEN parts[1]
    ELSE parts[1] \o <<separator>> \o Join(Tail(parts), separator)

\* host names: letters, dots and hyphens, a letter at either end
HostTexts ==
    { t \in Texts({"a", ".", "-"}, MaxLen) : t[1] = "a" /\ t[Len(t)] = "a" }

\* zone names and dotted addresses
ZoneTexts == { <<"a">>, <<"a", ".", "a">> }
IpTexts == { <<"1", ".", "1">>, <<"1", ".", "2">> }

\* the (zone, fqdn, ip_address) of a DNS record
RecordTexts == [zone : ZoneTexts, fqdn : HostTexts, ip : IpTexts]

\* str(int(time.time())) when route_naming.include_timestamp is set
StampText == IF include_timestamp THEN << <<ToString(clock)>> >> ELSE <<>>

\* RouteInjectionService.generate_route_name with the default prefix 'dns',
\* include_zone and separator '_': the text it returns
route_name_text(fqdn, ip_address, zone) ==
    Join(<< <<"dns">> >>
         \o (IF zone # <<>> THEN << Replace(zone, ".", "_") >> ELSE <<>>)
         \o << Replace(Replace(fqdn, ".", "_"), "-", "_") >>
         \o << Replace(ip_address, ".", "_") >>
         \o StampText,
         "_")

\* DNSWebhookHandler:
\* f"dns_{fqdn.replace('.', '_')}_{ip_address.replace('.', '_')}"
legacy_route_name_text(fqdn, ip_address) ==
    <<"dns">> \o <<"_">> \o Replace(fqdn, ".", "_") \o <<"_">>
        \o Replace(ip_address, ".", "_")

Named(record, name) == [record |-> record, name |-> name]

\* the enhanced service generates the name of a record's route
route_name_generated ==
    /\ deployment = "enhanced"
    /\ Len(naming) < 2
    /\ \E r \in RecordTexts :
           naming' = Append(naming, Named(r, route_name_text(r.fqdn, r.ip, r.zone)))
    /\ UNCHANGED <<threads, pki, nat, ipamVars, routeVars, configVars, clock, commitVars>>

\* the older service generates the name of a record's route
legacy_route_name_generated ==
    /\ deployment = "legacy"
    /\ Len(naming) < 2
    /\ \E r \in RecordTexts :
           naming' = Append(naming, Named(r, legacy_route_name_text(r.fqdn, r.ip)))
    /\ UNCHANGED <<threads, pki, nat, ipamVars, routeVars, configVars, clock, commitVars>>

(***************************************************************************)
(* The enhanced route service serving requests on concurrent worker         *)
(* threads (app.run of Flask serves each request on its own thread): each   *)
(* call to Redis, the DNS API or the router is one step.                    *)
(***************************************************************************)
Threads == {1, 2}

NoThread == [op |-> "none", pc |-> "idle", name |-> NoName]

\* the one DNS record the concurrent requests are about
ThreadFqdn == IpFqdn(1)
ThreadIp == 1

At(t, place) == threads' = [threads EXCEPT ![t].pc = place]

\* a request arrives: POST or DELETE /api/v1/dns-record
thread_begins(t) ==
    /\ deployment = "enhanced"
    /\ threads[t].pc = "idle"
    /\ \E op \in {"inject", "remove"} :
           threads' = [threads EXCEPT ![t] =
               [op |-> op,
                pc |-> IF op = "remove" THEN "lookup"
                       ELSE IF is_cyber_range_ip(ThreadIp) THEN "dns" ELSE "done",
                name |-> generate_route_name(ThreadFqdn, ThreadIp, Zone)]]
    /\ UNCHANGED <<naming, pki, nat, ipamVars, routeVars, configVars, clock, commitVars>>

\* dns_manager.add_dns_record(zone, fqdn, ip_address, ttl)
thread_dns(t, outcomes) ==
    /\ threads[t].pc = "dns"
    /\ \E ok \in outcomes :
        /\ dnsRecords' = IF ok THEN dnsRecords \cup {DnsRecord(Zone, ThreadFqdn, ThreadIp)}
                          ELSE dnsRecords
        /\ At(t, IF ok THEN "route" ELSE "done")
    /\ UNCHANGED <<candidate, running, everCommitted, commitQueue, cache, lastRoute,
                   naming, pki, nat, ipamVars, configVars, clock, commitVars>>

\* redis_client.get(f"route:{route_name}"); `if not route_info:` return
thread_lookup(t) ==
    /\ threads[t].pc = "lookup"
    /\ At(t, IF threads[t].name \in cache THEN "route" ELSE "done")
    /\ UNCHANGED <<naming, pki, nat, ipamVars, routeVars, configVars, clock, commitVars>>

\* router_manager.create_static_route / delete_static_route
thread_route(t, outcomes) ==
    /\ threads[t].pc = "route"
    /\ \E ok \in outcomes :
        /\ candidate' = IF ~ok THEN candidate
                         ELSE IF threads[t].op = "inject"
                              THEN candidate \cup {threads[t].name}
                              ELSE candidate \ {threads[t].name}
        /\ At(t, IF ~ok THEN "done" ELSE IF auto_commit THEN "commit" ELSE "cache")
    /\ UNCHANGED <<dnsRecords, running, everCommitted, commitQueue, cache, lastRoute,
                   naming, pki, nat, ipamVars, configVars, clock, commitVars>>

\* commit_configuration: requests.get(url, params={"type": "commit", ...})
\* is sent and the thread waits for the answer
thread_commit_sent(t) ==
    /\ threads[t].pc = "commit"
    /\ At(t, "committing")
    /\ UNCHANGED <<naming, pki, nat, ipamVars, routeVars, configVars, clock, commitVars>>

\* the router answers the commit request; a failed commit is only logged
thread_commit_answered(t, outcomes) ==
    /\ threads[t].pc = "committing"
    /\ \E commitOk \in outcomes :
           LET w == Staged(World, candidate, Accepts(World, commitOk))
           IN /\ everCommitted' = w.everCommitted
              /\ commitQueue' = w.commitQueue
    /\ At(t, "cache")
    /\ UNCHANGED <<dnsRecords, candidate, running, cache, lastRoute,
                   naming, pki, nat, ipamVars, configVars, clock, commitVars>>

\* redis_client.setex(f"route:{route_name}", ...) / redis_client.delete(...)
thread_cache(t) ==
    /\ threads[t].pc = "cache"
    /\ cache' = IF threads[t].op = "inject" THEN cache \cup {threads[t].name}
                 ELSE cache \ {threads[t].name}
    /\ At(t, "done")
    /\ UNCHANGED <<dnsRecords, candidate, running, everCommitted, commitQueue,
                   lastRoute, naming, pki, nat, ipamVars, configVars, clock, commitVars>>

\* the response is sent
thread_returns(t) ==
    /\ threads[t].pc = "done"
    /\ threads' = [threads EXCEPT ![t] = NoThread]
    /\ UNCHANGED <<naming, pki, nat, ipamVars, routeVars, configVars, clock, commitVars>>

(***************************************************************************)
(* panos-pki-manager (main.py): PANOSPKIManager.run. Every call that        *)
(* changes the CA server, a firewall or a file is recorded in pki.changes.  *)
(***************************************************************************)
NoPki ==
    [pc |-> "idle", dry_run |-> FALSE, create_if_missing |-> FALSE,
     backup_before_import |-> FALSE, commit_after_import |-> FALSE,
     check_existing |-> FALSE, left |-> 0, failed |-> FALSE, changes |-> {}]

\* PANOSPKIManager.__init__: the settings of config.yaml
pki_manager_created ==
    /\ pki.pc = "idle"
    /\ \E dry, create, backup, commitAfter, check \in BOOLEAN :
        \E firewalls \in 1 .. MaxFirewalls :
           pki' = [pc |-> "setup", dry_run |-> dry, create_if_missing |-> create,
                   backup_before_import |-> backup,
                   commit_after_import |-> commitAfter, check_existing |-> check,
                   left |-> firewalls, failed |-> FALSE, changes |-> {}]
    /\ UNCHANGED <<naming, threads, nat, ipamVars, routeVars, configVars, clock,
                   commitVars>>

\* PKIIntermediateCA.ensure_intermediate_ca with create_if_missing set: the
\* changes it makes and whether it returns True
ensure_intermediate_ca(templateExists, templateOk, caExists, signOk) ==
    IF ~templateExists /\ ~templateOk
    THEN [changes |-> {"create_intermediate_template"}, ok |-> FALSE]
    ELSE LET template == IF templateExists THEN {}
                         ELSE {"create_intermediate_template"}
         IN IF caExists THEN [changes |-> template, ok |-> TRUE]
            ELSE [changes |-> template
                      \cup {"write intermediate_ca_key.pem", "submit_csr_to_root_ca"}
                      \cup (IF signOk THEN {"write intermediate_ca_cert.pem"} ELSE {}),
                  ok |-> signOk]

\* run: the DRY RUN banner, then setup_intermediate_ca
pki_setup_intermediate_ca ==
    /\ pki.pc = "setup"
    /\ IF ~pki.create_if_missing
       THEN pki' = [pki EXCEPT !.pc = "firewalls"]
       ELSE \E templateExists, templateOk, caExists, signOk \in BOOLEAN :
            LET done == ensure_intermediate_ca(templateExists, templateOk,
                                               caExists, signOk)
            IN pki' = [pki EXCEPT !.changes = @ \cup done.changes,
                                  !.failed = ~done.ok,
                                  !.pc = IF done.ok THEN "firewalls" ELSE "returned"]
    /\ UNCHANGED <<naming, threads, nat, ipamVars, routeVars, configVars, clock,
                   commitVars>>

\* process_certificate for the certificate of a firewall
process_certificate(dry, check, exists, csrOk, signOk, importOk) ==
    IF check /\ exists THEN [changes |-> {}, ok |-> TRUE]
    ELSE IF dry THEN [changes |-> {}, ok |-> TRUE]
    ELSE IF ~csrOk THEN [changes |-> {"generate_certificate_csr"}, ok |-> FALSE]
    ELSE IF ~signOk
    THEN [changes |-> {"generate_certificate_csr", "write csr", "sign_csr"},
          ok |-> FALSE]
    ELSE [changes |-> {"generate_certificate_csr", "write csr", "sign_csr",
                       "write certificate", "import_certificate"},
          ok |-> importOk]

\* process_firewall for the next firewall, with one certificate configured:
\* backup, process_certificate, commit
pki_process_firewall ==
    /\ pki.pc = "firewalls"
    /\ pki.left > 0
    /\ \E connectOk, exists, csrOk, signOk, importOk \in BOOLEAN :
        LET cert == process_certificate(pki.dry_run, pki.check_existing, exists,
                                        csrOk, signOk, importOk)
            backup == IF pki.backup_before_import /\ ~pki.dry_run
                      THEN {"backup_config"} ELSE {}
            commits == IF cert.ok /\ pki.commit_after_import /\ ~pki.dry_run
                       THEN {"commit_changes"} ELSE {}
        IN pki' = [pki EXCEPT
                      !.left = @ - 1,
                      !.failed = @ \/ ~connectOk \/ ~cert.ok,
                      !.changes = IF connectOk THEN @ \cup backup \cup cert.changes
                                                      \cup commits
                                  ELSE @]
    /\ UNCHANGED <<naming, threads, nat, ipamVars, routeVars, configVars, clock,
                   commitVars>>

\* run returns success_count == total_count
pki_run_returns ==
    /\ pki.pc = "firewalls"
    /\ pki.left = 0
    /\ pki' = [pki EXCEPT !.pc = "returned"]
    /\ UNCHANGED <<naming, threads, nat, ipamVars, routeVars, configVars, clock,
                   commitVars>>

(***************************************************************************)
(* create-winrm-nat-rules.py: main.                                         *)
(***************************************************************************)
\* len(winrm_mappings)
WinrmMappings == 7

NoNat ==
    [pc |-> "idle", dry_run |-> FALSE, skip_commit |-> FALSE, i |-> 0,
     success_count |-> 0, committed |-> FALSE]

\* total_count = len(winrm_mappings) + 1  # +1 for security policy
total_count == WinrmMappings + 1

\* main up to the loops: the arguments, the dry-run return
nat_main_starts ==
    /\ nat.pc = "idle"
    /\ \E dry, skip \in BOOLEAN :
           nat' = [NoNat EXCEPT !.dry_run = dry, !.skip_commit = skip,
                                !.pc = IF dry THEN "done" ELSE "services"]
    /\ UNCHANGED <<naming, threads, pki, ipamVars, routeVars, configVars, clock,
                   commitVars>>

\* one turn of a loop: `if nat_manager.create_...(...): success_count += 1`
Counted(ok, after) ==
    [nat EXCEPT !.success_count = IF ok THEN @ + 1 ELSE @,
                !.i = IF nat.i + 1 = WinrmMappings THEN 0 ELSE @ + 1,
                !.pc = IF nat.i + 1 = WinrmMappings THEN after ELSE @]

\* for ... in winrm_mappings: create_service_object
nat_create_service_object ==
    /\ nat.pc = "services"
    /\ \E ok \in BOOLEAN : nat' = Counted(ok, "rules")
    /\ UNCHANGED <<naming, threads, pki, ipamVars, routeVars, configVars, clock,
                   commitVars>>

\* for ... in winrm_mappings: create_nat_rule
nat_create_nat_rule ==
    /\ nat.pc = "rules"
    /\ \E ok \in BOOLEAN : nat' = Counted(ok, "policy")
    /\ UNCHANGED <<naming, threads, pki, ipamVars, routeVars, configVars, clock,
                   commitVars>>

\* create_security_policy
nat_create_security_policy ==
    /\ nat.pc = "policy"
    /\ \E ok \in BOOLEAN :
           nat' = [nat EXCEPT !.success_count = IF ok THEN @ + 1 ELSE @,
                              !.pc = "commit"]
    /\ UNCHANGED <<naming, threads, pki, ipamVars, routeVars, configVars, clock,
                   commitVars>>

\* `if not args.skip_commit and success_count == total_count:` commit_changes
nat_commit ==
    /\ nat.pc = "commit"
    /\ nat' = [nat EXCEPT
                  !.committed = ~nat.skip_commit /\ nat.success_count = total_count,
                  !.pc = "done"]
    /\ UNCHANGED <<naming, threads, pki, ipamVars, routeVars, configVars, clock,
                   commitVars>>

(***************************************************************************)
(* Specifications.                                                          *)
(***************************************************************************)
\* a row an administrator reserved (the services never write 'reserved')
ReservedRow(ip, sid) ==
    [ip_address |-> ip, subnet_id |-> sid, device_id |-> NoDevice,
     status |-> "reserved", allocated_at |-> FALSE, expires_at |-> FALSE,
     notes |-> FALSE]

\* nothing allocated, nothing published, nothing staged
Fresh ==
    /\ pc = [p \in Procs |-> "idle"]
    /\ req = [p \in Procs |-> NoRequest]
    /\ ip_to_allocate = [p \in Procs |-> NoIp]
    /\ result = [p \in Procs |-> NoResult]
    /\ calls = [p \in Procs |-> <<>>]
    /\ ipamCache = [a \in Addr |-> "none"]
    /\ dnsRecords = {}
    /\ candidate = {}
    /\ running = {}
    /\ everCommitted = {}
    /\ commitQueue = <<>>
    /\ cache = {}
    /\ lastRoute = NoRoute
    /\ commit = [s \in Scripts |-> NotCalled]
    /\ jobs = [s \in Scripts |-> "none"]
    /\ submitted = [s \in Scripts |-> 0]
    /\ polled = [s \in Scripts |-> "none"]
    /\ naming = <<>>
    /\ threads = [t \in Threads |-> NoThread]
    /\ pki = NoPki
    /\ nat = NoNat

\* the IPAM service in front of the enhanced route service, default config
Init ==
    /\ Fresh
    /\ table \in {<<>>, <<ReservedRow(1, 1)>>}
    /\ deployment = "enhanced"
    /\ auto_commit = TRUE
    /\ include_timestamp = FALSE
    /\ clock = 0

\* the router finishes its oldest commit job: with result OK the
\* configuration the job took becomes the running one
commit_job_finishes(outcomes) ==
    /\ commitQueue # <<>>
    /\ \E ok \in outcomes :
           running' = IF ok THEN Head(commitQueue) ELSE running
    /\ commitQueue' = Tail(commitQueue)
    /\ UNCHANGED <<dnsRecords, candidate, everCommitted, cache, lastRoute,
                   ipamVars, configVars, clock, commitVars, toolVars>>

\* a request handler p; outcomes are the answers (TRUE: success) the DNS API,
\* the route service and the router may give to a call made for the request
Handler(p, requests, releases, outcomes) ==
    \/ allocate_ip_scan(p, requests)
    \/ allocate_ip_insert(p)
    \/ allocate_ip_dns(p, outcomes)
    \/ allocate_ip_route(p, outcomes)
    \/ release_ip(p, releases, outcomes)
    \/ Return(p)

\* the IPAM service serving every kind of request, one at a time, while
\* the services behind it answer
Answering == {TRUE}
Next ==
    \/ Handler(1, AllocationRequests, Addr, Answering)
    \/ commit_job_finishes(Answering)
Spec == Init /\ [][Next]_vars

\* the IPAM service serving the requests of one pool, one at a time, while
\* any call to the services behind it may fail
NextFaults ==
    \/ Handler(1, FaultRequests, FaultReleases, BOOLEAN)
    \/ commit_job_finishes(BOOLEAN)
SpecFaults == Init /\ [][NextFaults]_vars

\* the IPAM service serving requests concurrently
NextConcurrent ==
    \/ \E p \in Procs : Handler(p, ConcurrentRequests, ConcurrentReleases, BOOLEAN)
    \/ commit_job_finishes(BOOLEAN)
SpecConcurrent == Init /\ [][NextConcurrent]_vars

\* the wall clock of the route service's host moves on to the next second.
\* The services read the clock only for the timestamp of a route name, so
\* the seconds are counted only where names carry one.
time_passes ==
    /\ include_timestamp
    /\ clock < MaxClock
    /\ clock' = clock + 1
    /\ UNCHANGED <<ipamVars, routeVars, configVars, commitVars, toolVars>>

\* the route service (either deployment, either auto_commit) and its clients
InitRoute ==
    /\ Fresh
    /\ table = <<>>
    /\ deployment \in {"enhanced", "legacy"}
    /\ auto_commit \in BOOLEAN
    /\ include_timestamp = FALSE
    /\ clock = 0
NextRoute ==
    \/ commit_job_finishes(BOOLEAN)
    \/ add_dns_record_with_route(ApiFqdns, ApiIps)
    \/ remove_dns_record_with_route(ApiFqdns, ApiIps)
    \/ dns_record_created(ApiFqdns, WebhookIps)
    \/ dns_record_deleted
SpecRoute == InitRoute /\ [][NextRoute]_vars

\* the enhanced route service under either setting of
\* route_naming.include_timestamp, while time passes
InitNaming ==
    /\ Fresh
    /\ table = <<>>
    /\ deployment = "enhanced"
    /\ auto_commit = TRUE
    /\ include_timestamp \in BOOLEAN
    /\ clock = 0
NextNaming ==
    \/ time_passes
    \/ commit_job_finishes(BOOLEAN)
    \/ add_dns_record_with_route(NamingFqdns, NamingIps)
    \/ remove_dns_record_with_route(NamingFqdns, NamingIps)
SpecNaming == InitNaming /\ [][NextNaming]_vars

\* either route service generating the names of two routes
InitNames ==
    /\ Fresh
    /\ table = <<>>
    /\ deployment \in {"enhanced", "legacy"}
    /\ auto_commit = TRUE
    /\ include_timestamp = FALSE
    /\ clock = 0
NextNames == route_name_generated \/ legacy_route_name_generated
SpecNames == InitNames /\ [][NextNames]_vars

\* redis_client.setex(key, ttl_seconds, ...): the time-to-live of an
\* association is over and Redis drops the entry
association_expires ==
    /\ \E route_name \in cache : cache' = cache \ {route_name}
    /\ UNCHANGED <<dnsRecords, candidate, running, everCommitted, commitQueue,
                   lastRoute, ipamVars, configVars, clock, commitVars, toolVars>>

\* the enhanced route service with associations that expire
InitExpiry ==
    /\ Fresh
    /\ table = <<>>
    /\ deployment = "enhanced"
    /\ auto_commit \in BOOLEAN
    /\ include_timestamp = FALSE
    /\ clock = 0
NextExpiry ==
    \/ association_expires
    \/ commit_job_finishes(BOOLEAN)
    \/ add_dns_record_with_route(ApiFqdns, ApiIps)
    \/ remove_dns_record_with_route(ApiFqdns, ApiIps)
SpecExpiry == InitExpiry /\ [][NextExpiry]_vars

\* one run of panos-pki-manager
NextPki ==
    \/ pki_manager_created
    \/ pki_setup_intermediate_ca
    \/ pki_process_firewall
    \/ pki_run_returns
InitPki == Init /\ table = <<>>
SpecPki == InitPki /\ [][NextPki]_vars

\* one run of create-winrm-nat-rules
NextNat ==
    \/ nat_main_starts
    \/ nat_create_service_object
    \/ nat_create_nat_rule
    \/ nat_create_security_policy
    \/ nat_commit
InitNat == Init /\ table = <<>>
SpecNat == InitNat /\ [][NextNat]_vars

\* two worker threads of the enhanced service, the router always answering
\* its requests with success
NextThreads ==
    \/ commit_job_finishes(Answering)
    \/ \E t \in Threads :
           \/ thread_begins(t)
           \/ thread_dns(t, Answering)
           \/ thread_lookup(t)
           \/ thread_route(t, Answering)
           \/ thread_commit_sent(t)
           \/ thread_commit_answered(t, Answering)
           \/ thread_cache(t)
           \/ thread_returns(t)
InitThreads == Init /\ table = <<>>
SpecThreads == InitThreads /\ [][NextThreads]_vars

\* either route service deciding which addresses it manages
NextManaged ==
    \/ commit_job_finishes(BOOLEAN)
    \/ add_dns_record_with_route(ManagedFqdns, ManagedIps)
    \/ dns_record_created(ManagedFqdns, ManagedIps)
SpecManaged == InitRoute /\ [][NextManaged]_vars

\* the three scripts committing to their devices. A running script keeps
\* taking the steps of its commit_config; the device owes nothing.
NextCommit ==
    \E s \in Scripts :
        \/ commit_config_submit(s)
        \/ commit_config_poll(s)
        \/ commit_config_sleep(s)
        \/ device_job_advances(s)
ScriptRuns(s) ==
    /\ WF_vars(commit_config_submit(s))
    /\ WF_vars(commit_config_poll(s))
    /\ WF_vars(commit_config_sleep(s))
InitCommit == Init /\ table = <<>>
SpecCommit ==
    InitCommit /\ [][NextCommit]_vars /\ \A s \in Scripts : ScriptRuns(s)

(***************************************************************************)
(* Claims.                                                                  *)
(***************************************************************************)
AllocateCall(p) == req[p].op = "allocate"
ReleaseCall(p) == req[p].op = "release"
Returned(p) == pc[p] = "done"
Succeeded(p) == Returned(p) /\ result[p].ok
Failed(p) == Returned(p) /\ ~result[p].ok

\* an allocate_ip call whose record is committed: it returns ip_to_allocate
Allocating(p) ==
    /\ AllocateCall(p)
    /\ pc[p] \in {"inserted", "published"} \/ Succeeded(p)

\* C1: whatever the interleaving of concurrent allocate_ip calls (the scan
\* and the insert+commit being separate steps), no two calls that succeed
\* return the same ip_address, and no two rows of status allocated/reserved
\* hold the same address.
C1_UniqueOwner ==
    /\ \A p, q \in Procs :
           (p # q /\ Allocating(p) /\ Allocating(q))
               => ip_to_allocate[p] # ip_to_allocate[q]
    /\ \A i, j \in 1 .. Len(table) :
           (i # j /\ IsActive(table[i]) /\ IsActive(table[j]))
               => table[i].ip_address # table[j].ip_address

\* two calls chose the same address before either inserted it: one holds
\* the row, the other was refused by the unique constraint
C1_Witness ==
    \E p, q \in Procs :
        /\ p # q
        /\ Allocating(p)
        /\ AllocateCall(q) /\ Failed(q) /\ result[q].cause = "integrity_error"
        /\ ip_to_allocate[q] = ip_to_allocate[p]
        /\ ExistingActive(table, ip_to_allocate[p])

\* the table as the call of p found it, when calls are served one at a
\* time: a call that succeeded appended the last row
Before(p) == IF Succeeded(p) THEN SubSeq(table, 1, Len(table) - 1) ELSE table

NoPreferenceCall(p) ==
    /\ AllocateCall(p)
    /\ ~HasPreference(req[p].preferred_ip)
    /\ req[p].subnet_id \in SubnetIds

PreferredCall(p) ==
    /\ AllocateCall(p)
    /\ HasPreference(req[p].preferred_ip)
    /\ req[p].subnet_id \in SubnetIds

\* C2: allocate_ip without preferred_ip returns the lowest host of the
\* subnet that has no allocated/reserved record; it fails, with the
\* pool-exhausted error and inserting nothing, exactly when every host of
\* the subnet has such a record.
C2_LowestFreeOrExhausted ==
    \A p \in Procs :
        (Returned(p) /\ NoPreferenceCall(p)) =>
            /\ Failed(p) <=> FreeHosts(Before(p), req[p].subnet_id) = {}
            /\ Failed(p) => result[p].cause = "no_available"
            /\ Succeeded(p) =>
                   /\ result[p].ip = FirstFree(Before(p), req[p].subnet_id)
                   /\ table[Len(table)].ip_address = result[p].ip

\* C3: in a subnet whose gateway is its first host, an allocation without
\* preferred_ip never returns the gateway; with nothing allocated before it
\* returns the host after the gateway.
C3_GatewaySkipped ==
    \A p \in Procs :
        (Succeeded(p) /\ NoPreferenceCall(p)
            /\ SubnetById(req[p].subnet_id).gateway \in Hosts(SubnetById(req[p].subnet_id)))
        => /\ result[p].ip # SubnetById(req[p].subnet_id).gateway
           /\ Before(p) = <<>> => result[p].ip = SubnetById(req[p].subnet_id).gateway + 1

\* C4: every row of status allocated holds a host address of its subnet
\* (never the network or the broadcast address), and a preferred_ip outside
\* the subnet's CIDR is rejected as out of range.
C4_AllocatedInHostRange ==
    /\ \A r \in Rows(table) :
           r.status = "allocated" => r.ip_address \in Hosts(SubnetById(r.subnet_id))
    /\ \A p \in Procs :
           (Returned(p) /\ PreferredCall(p) /\ ~ParseFails(req[p].preferred_ip)
               /\ ~InNetwork(ParseIp(req[p].preferred_ip), SubnetById(req[p].subnet_id)))
           => Failed(p) /\ result[p].cause = "not_in_subnet"

\* the errors of a preferred_ip: InvalidAddress, OutOfRange, Conflict
PreferredErrors == {"invalid_format", "not_in_subnet", "already_allocated"}

\* C5: the three errors of a preferred_ip reach the caller as three
\* distinct outcomes: two calls that failed for different ones of these
\* reasons do not carry the same status code.
C5_DistinctErrors ==
    \A p, q \in Procs :
        (Failed(p) /\ Failed(q) /\ AllocateCall(p) /\ AllocateCall(q)
            /\ result[p].cause \in PreferredErrors
            /\ result[q].cause \in PreferredErrors
            /\ result[p].cause # result[q].cause)
        => result[p].status_code # result[q].status_code

\* the address has a row of status allocated or reserved, in any subnet
HasActiveRecord(tbl, ip) ==
    \E i \in 1 .. Len(tbl) :
        tbl[i].ip_address = ip /\ tbl[i].status \in {"allocated", "reserved"}

HasAllocatedRecord(tbl, ip) ==
    \E i \in 1 .. Len(tbl) : tbl[i].ip_address = ip /\ tbl[i].status = "allocated"

\* this step serves an allocate_ip call of p that prefers an address which
\* has an allocated/reserved record when the call arrives
PrefersTaken(p) ==
    /\ pc[p] = "idle" /\ pc'[p] # "idle"
    /\ req'[p].op = "allocate"
    /\ req'[p].subnet_id \in SubnetIds
    /\ HasPreference(req'[p].preferred_ip)
    /\ ~ParseFails(req'[p].preferred_ip)
    /\ HasActiveRecord(table, ParseIp(req'[p].preferred_ip))

\* the call fails at once, no row is inserted or changed, nothing published
RefusedUnchanged(p) ==
    /\ pc'[p] = "done" /\ ~result'[p].ok
    /\ table' = table
    /\ calls'[p] = <<>>
    /\ UNCHANGED <<ipamCache, dnsRecords, candidate, commitQueue, cache>>

\* C6 as stated: if address X has an allocated/reserved record in any subnet
\* of the system, allocate_ip with preferred_ip = X fails with the conflict
\* error, inserts no record and leaves the existing records unchanged.
C6_ConflictAnywhere ==
    [][\A p \in Procs :
           PrefersTaken(p) =>
               RefusedUnchanged(p) /\ result'[p].cause = "already_allocated"]_vars

\* C6 (amended): if address X has an allocated/reserved record in any subnet,
\* allocate_ip with preferred_ip = X fails, inserts no record and leaves the
\* existing records unchanged; the error is the conflict error when X lies
\* inside the CIDR of the requested subnet and the out-of-range error when
\* it lies outside.
C6_TakenIsRefused ==
    [][\A p \in Procs :
           PrefersTaken(p) =>
               /\ RefusedUnchanged(p)
               /\ result'[p].cause =
                      IF InNetwork(ParseIp(req'[p].preferred_ip),
                                   SubnetById(req'[p].subnet_id))
                      THEN "already_allocated" ELSE "not_in_subnet"]_vars

\* a call that preferred an address reserved in its own subnet was refused
\* with the conflict error while another address was allocated
C6_Witness ==
    \E p \in Procs :
        /\ Failed(p) /\ PreferredCall(p)
        /\ result[p].cause = "already_allocated"
        /\ \E r \in Rows(table) :
               /\ r.status = "reserved"
               /\ TextOf(r.ip_address) = req[p].preferred_ip
        /\ \E r \in Rows(table) : r.status = "allocated"

\* C7: release_ip changes state only for an address whose row has status
\* allocated; for an address that is absent, available or reserved it fails
\* with the not-allocated error, changes no row, removes no DNS record and
\* no route.
C7_ReleaseOnlyAllocated ==
    [][\A p \in Procs :
           (pc[p] = "idle" /\ pc'[p] # "idle" /\ req'[p].op = "release") =>
               IF HasAllocatedRecord(table, req'[p].ip_address)
               THEN \A i \in 1 .. Len(table) :
                        table'[i] # table[i] =>
                            /\ table[i].ip_address = req'[p].ip_address
                            /\ table[i].status = "allocated"
               ELSE /\ RefusedUnchanged(p)
                    /\ result'[p].cause = "not_allocated"
                    /\ UNCHANGED everCommitted]_vars

\* a release of a reserved address was refused while another address was
\* allocated and had its route in the cache
C7_Witness ==
    \E p \in Procs :
        /\ Failed(p) /\ ReleaseCall(p)
        /\ result[p].cause = "not_allocated"
        /\ \E r \in Rows(table) :
               r.status = "reserved" /\ r.ip_address = req[p].ip_address
        /\ \E r \in Rows(table) : r.status = "allocated"
        /\ cache # {}

\* the router finished its oldest commit job in this step
JobStep == commitQueue # <<>> /\ commitQueue' = Tail(commitQueue)

\* this step is a request to the route service, answered with lastRoute'
RouteRequest(op) == ~JobStep /\ clock' = clock /\ lastRoute'.op = op

\* C8: remove_route_for_dns_record, and handle_dns_record_deleted, for a key
\* that has no association in the cache return success without contacting
\* the device or changing the cache; the key still has no association
\* afterwards, so a second removal in a row succeeds the same way.
C8_RemoveMissingSucceeds ==
    [][(RouteRequest("remove") /\ lastRoute'.name \notin cache) =>
           /\ lastRoute'.success
           /\ lastRoute'.calls = <<>>
           /\ ~lastRoute'.hadEntry
           /\ UNCHANGED <<cache, candidate, commitQueue, dnsRecords>>
           /\ lastRoute'.name \notin cache']_vars

\* a removal found no association for its key while other routes were cached
\* and staged on the device
C8_Witness ==
    /\ lastRoute.op = "remove"
    /\ lastRoute.success /\ ~lastRoute.hadEntry
    /\ lastRoute.name \notin cache
    /\ cache # {} /\ candidate # {}

\* the call of p made this call to another service, with this outcome
Made(p, call, ok) == \E i \in 1 .. Len(calls[p]) : calls[p][i] = Outcome(call, ok)

DnsPublished(p) == Made(p, "create_record", TRUE) \/ Made(p, "dns_add", TRUE)

\* C9: if route injection fails after the DNS publish succeeded, then when
\* the request ends the DNS record has been removed again and the address
\* has no allocated row any more.
C9_RouteFailureCompensated ==
    \A p \in Procs :
        (Returned(p) /\ AllocateCall(p) /\ DnsPublished(p)
            /\ Made(p, "inject_route", FALSE))
        => /\ \A d \in dnsRecords : d.ip # ip_to_allocate[p]
           /\ ~HasAllocatedRecord(table, ip_to_allocate[p])

\* C10: a cache entry route:<name> exists only if the route was created and
\* a later commit succeeded; a request whose commit failed, or that submitted
\* no commit, is not answered with success and route_injected = true.
C10_CachedOnlyCommitted ==
    /\ \A route_name \in cache : route_name \in everCommitted
    /\ (lastRoute.op = "inject" /\ lastRoute.success /\ lastRoute.flag)
           => \E i \in 1 .. Len(lastRoute.calls) :
                  lastRoute.calls[i] = Outcome("commit", TRUE)

\* the route the route service names for the allocation request of p
RouteOf(p) ==
    generate_route_name(InjectFqdn(ip_to_allocate[p], req[p].device_id),
                        ip_to_allocate[p], Zone)

\* for the request of p the DNS publish succeeded, the route was created and
\* the commit then failed
CommitFailedFor(p) ==
    /\ Made(p, "dns_add", TRUE)
    /\ Made(p, "route_set", TRUE)
    /\ Made(p, "commit", FALSE)

\* C11: when an address of a managed range is allocated, the DNS publish
\* and the route creation succeed and the commit then fails, then at the end
\* of the request the staged route has been deleted from the device, the DNS
\* record is absent, the address is released, no association entry exists
\* and the caller receives a commit-failed error.
C11_CommitFailureCompensated ==
    \A p \in Procs :
        (Returned(p) /\ AllocateCall(p) /\ CommitFailedFor(p)) =>
            /\ RouteOf(p) \notin candidate
            /\ \A d \in dnsRecords : d.ip # ip_to_allocate[p]
            /\ ~HasAllocatedRecord(table, ip_to_allocate[p])
            /\ RouteOf(p) \notin cache
            /\ Failed(p) /\ result[p].cause = "commit_failed"

\* C12: for an address outside every managed (cyber-range) network the DNS
\* and route pipeline is skipped entirely: the allocation succeeds, no call
\* to the DNS API, the route service or the router is made for it, no DNS
\* record and no route or association entry exists for the address; the
\* route service answers such a request with success and route_injected
\* false without any call.
C12_UnmanagedSkipped ==
    /\ \A p \in Procs :
           (Returned(p) /\ Allocating(p) /\ ~ipam_is_cyber_range_ip(ip_to_allocate[p]))
           => /\ Succeeded(p)
              /\ calls[p] = <<>>
              /\ \A d \in dnsRecords : d.ip # ip_to_allocate[p]
              /\ \A n \in candidate \cup cache : n.ip # ip_to_allocate[p]
    /\ (lastRoute.op = "inject" /\ ~is_cyber_range_ip(lastRoute.name.ip))
           => /\ lastRoute.success /\ ~lastRoute.flag
              /\ lastRoute.calls = <<>>

\* the (zone, fqdn, address) a route name was computed for
KeyOf(route_name) == <<route_name.zone, route_name.fqdn, route_name.ip>>

\* C13: the name remove_route_for_dns_record computes for a (zone, fqdn,
\* address) is the name inject_route_for_dns_record computed for it, under
\* every configuration: a removal that found no association was for a
\* (zone, fqdn, address) no cached association was written for.
C13_RemoveFindsAssociation ==
    (lastRoute.op = "remove" /\ ~lastRoute.hadEntry)
        => \A route_name \in cache : KeyOf(route_name) # KeyOf(lastRoute.name)

\* C14: the polling loop of commit_config always terminates, whatever the
\* device does: a commit_config that entered the loop returns, on a terminal
\* job state or on a timeout.
C14_PollingTerminates ==
    \A s \in Scripts : (commit[s].pc = "polling") ~> (commit[s].pc = "returned")

\* the handler that gave this response made this call, with this outcome
Called(response, call, ok) ==
    \E i \in 1 .. Len(response.calls) : response.calls[i] = Outcome(call, ok)

\* C15: route creation and withdrawal are idempotent at the device:
\* create_static_route for a route that is already on the device returns
\* success and delete_static_route for a route that is not on the device
\* returns success, whatever status the device gives for the redundant
\* change.
C15_DeviceIdempotent ==
    [][/\ (RouteRequest("inject") /\ lastRoute'.name \in candidate)
              => ~Called(lastRoute', "route_set", FALSE)
       /\ (RouteRequest("remove") /\ lastRoute'.name \notin candidate)
              => ~Called(lastRoute', "route_delete", FALSE)]_vars

\* C16: an association entry is written only after the commit job submitted
\* for the route was polled to a terminal state and that state is success:
\* when the entry is written the route is part of the running configuration
\* and no commit job holding it is still pending or running.
C16_AssociatedAfterCommitDone ==
    [][\A route_name \in cache' \ cache :
           /\ route_name \in running'
           /\ \A i \in 1 .. Len(commitQueue') : route_name \notin commitQueue'[i]]_vars

\* the rows of the table that hold this address
RowsOf(tbl, ip) == {r \in Rows(tbl) : r.ip_address = ip}

\* C17: after a successful release_ip the record of the address has status
\* 'available' and its device_id, allocated_at, expires_at and notes are
\* cleared.
C17_ReleaseClearsRecord ==
    \A p \in Procs :
        (ReleaseCall(p) /\ Succeeded(p))
            => \A r \in RowsOf(table, req[p].ip_address) :
                   /\ r.status = "available"
                   /\ r.device_id = NoDevice
                   /\ ~r.allocated_at
                   /\ ~r.expires_at
                   /\ ~r.notes

\* GET /api/v1/ipam/ips/available: the hosts of the subnet with no
\* allocated/reserved row
get_available_ips(tbl, sid) == FreeHosts(tbl, sid)

\* C18: an address that was released, or that get_available_ips lists, can
\* be allocated: allocate_ip with it as preferred_ip succeeds with it, and
\* allocate_ip without preference succeeds with the lowest listed address.
C18_AvailableIsAllocatable ==
    \A p \in Procs :
        /\ (/\ Returned(p) /\ PreferredCall(p)
            /\ ~ParseFails(req[p].preferred_ip)
            /\ ParseIp(req[p].preferred_ip)
                   \in get_available_ips(Before(p), req[p].subnet_id)
            /\ ~ExistingActive(Before(p), ParseIp(req[p].preferred_ip)))
               => /\ Succeeded(p)
                  /\ result[p].ip = ParseIp(req[p].preferred_ip)
        /\ (/\ Returned(p) /\ NoPreferenceCall(p)
            /\ get_available_ips(Before(p), req[p].subnet_id) # {})
               => /\ Succeeded(p)
                  /\ result[p].ip = FirstFree(Before(p), req[p].subnet_id)

\* the stage of the allocation state machine a downstream call belongs to
\* (the client's POST to the route service is the transport of the stages the
\* service then runs)
StageOf(call) ==
    CASE call \in {"create_record", "dns_add"} -> "DNSPublished"
      [] call = "route_set" -> "RouteInjected"
      [] call = "commit" -> "Committed"
      [] call = "cache_set" -> "Associated"
      [] OTHER -> "none"

\* an earlier call of the request was this call, and succeeded
Earlier(p, i, call) == \E j \in 1 .. (i - 1) : calls[p][j] = Outcome(call, TRUE)

\* no DNS or route call before the record is inserted and committed
AfterInsert(p) ==
    calls[p] # <<>> => RowsOf(table, ip_to_allocate[p]) # {}

\* router only after the DNS publish succeeded; commit and association only
\* after the route was created
InOrder(p) ==
    \A i \in 1 .. Len(calls[p]) :
        /\ calls[p][i].call = "route_set" => Earlier(p, i, "dns_add")
        /\ calls[p][i].call \in {"commit", "cache_set"} => Earlier(p, i, "route_set")

\* no stage is attempted twice
Once(p) ==
    \A i, j \in 1 .. Len(calls[p]) :
        (i # j /\ StageOf(calls[p][i].call) # "none")
            => StageOf(calls[p][i].call) # StageOf(calls[p][j].call)

\* C19: the stages of an allocation request come in the order of the state
\* machine: no DNS or route call before the record is inserted and
\* committed; the router is contacted only after the DNS publish succeeded,
\* a commit submitted and an association written only after the route was
\* created; and no stage is attempted more than once per request.
C19_StagesInOrderOnce ==
    \A p \in Procs :
        AllocateCall(p) => AfterInsert(p) /\ InOrder(p) /\ Once(p)

\* the managed networks the deployed route service is configured with
ListedNetworks ==
    IF deployment = "enhanced" THEN RouteCyberRangeNetworks
    ELSE LegacyCyberRangeNetworks

\* the address lies inside one of the listed networks
Listed(ip) == Parses(ip) /\ \E n \in ListedNetworks : InNetwork(ip, n)

\* C20: the route service treats an address as managed (it goes on to the
\* DNS API or the router for it) if and only if the address lies inside one
\* of its cyber_range_networks; an address outside every listed network, or
\* a text that does not parse, is never treated as managed.
C20_ManagedIffListed ==
    lastRoute.op = "inject"
        => (lastRoute.calls # <<>> <=> Listed(lastRoute.name.ip))

\* C21: route-name generation avoids collisions: two distinct (zone, fqdn,
\* address) triples never get the same route name.
C21_NamesDistinct ==
    \A i, j \in 1 .. Len(naming) :
        naming[i].record # naming[j].record => naming[i].name # naming[j].name

\* C22: commit_config sends one commit request per call and never sends it
\* again; once the device gave a job id, the call reports success exactly
\* when a poll saw the job FIN with result OK, and reports failure when a
\* poll saw it FIN with another result or saw no job status.
C22_OneCommitResultByPoll ==
    [][\A s \in Scripts :
          /\ submitted'[s] <= 1
          /\ (commit[s].pc # "start") => submitted'[s] = 1
          /\ (commit[s].pc = "polling" /\ commit'[s] # commit[s])
                => /\ (commit'[s] = Returns("True")) <=> (polled'[s] = "FIN_OK")
                   /\ polled'[s] \in {"FIN_FAIL", "no_status"}
                          => commit'[s] = Returns("False")]_vars

\* one script reported success after its poll saw FIN/OK while another
\* reported failure after its poll saw the job FIN with a failed result
C22_Witness ==
    \E s, t \in Scripts :
        /\ commit[s] = Returns("True") /\ polled[s] = "FIN_OK"
        /\ commit[t] = Returns("False") /\ polled[t] = "FIN_FAIL"
        /\ submitted[s] = 1 /\ submitted[t] = 1

\* commit requests on their way to the router or waiting on it as jobs
InFlight ==
    Cardinality({t \in Threads : threads[t].pc = "committing"}) + Len(commitQueue)

\* C23: commits are serialized per device: whatever the interleaving of
\* concurrent inject and remove requests, at most one commit of the router
\* is in flight at any time.
C23_OneCommitInFlight == InFlight <= 1

\* one inject and one remove for the same route have both returned
BothReturned ==
    \E t, u \in Threads :
        /\ threads[t].op = "inject" /\ threads[t].pc = "done"
        /\ threads[u].op = "remove" /\ threads[u].pc = "done"
        /\ threads[t].name = threads[u].name

\* C28: when one inject_route_for_dns_record and one
\* remove_route_for_dns_record for the same (zone, fqdn, address) ran
\* concurrently and both have returned, the cache holds the association
\* exactly when the route is in the device configuration.
C28_CacheMatchesDevice ==
    BothReturned =>
        \A t \in Threads : threads[t].name \in cache <=> threads[t].name \in candidate

\* C24: the time-to-live of the cache is not a correctness mechanism: a
\* removal reported as successful, also one that comes after the association
\* has expired, leaves no route of that name on the device.
C24_ExpiryKeepsRemovalCorrect ==
    [][(RouteRequest("remove") /\ lastRoute'.success)
           => lastRoute'.name \notin candidate']_vars

\* C25: release reverses the side effects of allocation: after a successful
\* release_ip no DNS record of the address exists any more, and for a
\* managed address no association of the address is left in the cache.
C25_ReleaseReverses ==
    \A p \in Procs :
        (ReleaseCall(p) /\ Succeeded(p))
            => /\ \A d \in dnsRecords : d.ip # req[p].ip_address
               /\ ipam_is_cyber_range_ip(req[p].ip_address)
                      => \A route_name \in cache : route_name.ip # req[p].ip_address

\* this step is release_ip of handler p, ending in success
ReleaseStep(p) ==
    /\ pc[p] = "idle" /\ pc'[p] = "done"
    /\ req'[p].op = "release" /\ result'[p].ok

\* C27: the release path addresses the route of the allocation path: the
\* (zone, fqdn, ip_address) remove_route sends for a managed address is the
\* one inject_route sent when the address was allocated, so the name the
\* route service computes from it is the one it cached then.
C27_ReleaseFindsAllocationsRoute ==
    [][\A p \in Procs :
          (ReleaseStep(p) /\ ipam_is_cyber_range_ip(req'[p].ip_address))
              => generate_route_name(RemoveFqdn(req'[p].ip_address),
                                     req'[p].ip_address, Zone) \in cache]_vars

\* C26: in dry-run mode PANOSPKIManager.run makes no change, whatever the
\* configuration (intermediate_ca.create_if_missing included): no template
\* creation or CSR submission on the CA server, no key or certificate file,
\* no CSR generation, import, backup or commit on a firewall.
C26_DryRunChangesNothing == pki.dry_run => pki.changes = {}

\* every operation of main succeeded: the service objects, the NAT rules and
\* the security policy
AllSucceeded == nat.success_count = 2 * WinrmMappings + 1

\* C30: run without --dry-run and without --skip-commit, main of
\* create-winrm-nat-rules calls commit_changes exactly when every operation
\* succeeded.
C30_CommitIffAllSucceeded ==
    (nat.pc = "done" /\ ~nat.dry_run /\ ~nat.skip_commit)
        => (nat.committed <=> AllSucceeded)


\* an allocate_ip call that raises to its caller after its record was
\* inserted and committed
RaisesAfterInsert(p) ==
    /\ AllocateCall(p)
    /\ pc[p] \in {"inserted", "published"}
    /\ pc'[p] = "done"
    /\ ~result'[p].ok

\* C29: whenever a call to allocate_ip ends by raising an error to its
\* caller, including an error raised after the record insert was committed
\* (the device lookup or the building of the response fails), no record
\* with status 'allocated' created by that call remains in the table.
C29_ErrorLeavesNoAllocation ==
    [][\A p \in Procs :
         RaisesAfterInsert(p) => AllocatedIndex(table', ip_to_allocate[p]) = {}]_vars

====
